---- MODULE Spec2Model ----
(***************************************************************************)
(* State-machine model of server/index.js (gift tracker instance): the     *)
(* connection manager, the gift combo tracker, the aggregator, the         *)
(* broadcast debouncer and the health monitor.                             *)
(*                                                                         *)
(* Every handler of the event loop (feed event listener, timer callback,   *)
(* API route, continuation after an await) is one action.  Timers are      *)
(* handles that are armed or not; an armed timer may fire at any later     *)
(* step.  The debounce timer also carries its remaining time, which only   *)
(* the timed specification SpecDebounce counts down.                       *)
(***************************************************************************)
EXTENDS Integers, Sequences, FiniteSets, TLC

\* ------------------------------------------------------------------ bounds
MaxConn == 2          \* connector objects that may be alive at once
MaxRepeat == 2        \* largest repeatCount the feed reports
MaxTotal == 3         \* feed stops sending gifts once this many could be counted
MaxErrors == 1        \* failures accepted while the error log holds this many entries
MaxFailures == 3      \* consecutive stale health checks explored
MaxInFlight == 1      \* pending awaits per kind of call
MaxStale == 4         \* stale health checks in a row before the model stops counting
MaxDisconnects == 2   \* disconnect calls awaiting the connector at once
MaxMuts == 2          \* debounced mutations counted per snapshot (saturating)
MaxViewers == 1       \* largest viewer count the feed reports
TickMs == 50          \* largest step by which the clock advances
MaxAge == 250         \* oldest unsent mutation the clock is advanced to
SyncTickMs == 1000    \* largest step of the clock while the sync timer runs
MaxSyncAge == 5000    \* oldest queued sync item the clock is advanced to
MaxQueued == 1        \* sync items the operator queues before a flush, where capped
MaxFlushes == 2       \* flushSyncQueue calls that may await a remote write at once
MaxBatch == 2         \* sync items queued per flush where flushes overlap

\* -------------------------------------------------------- program constants
MAX_ERROR_LOG_SIZE == 50
BROADCAST_DEBOUNCE_MS == 100
SYNC_BATCH_DELAY == 2000
MAX_SYNC_QUEUE_SIZE == 10
HEALTH_FAILURE_THRESHOLD == 3

\* ------------------------------------------------------------ feed universe
Connectors == 1..MaxConn
Users == {"u1", "u2"}
GiftIds == {1, 2}
\* gift 1 is streak-capable (giftType 1), gift 2 is not
GiftType(g) == IF g = 1 THEN 1 ELSE 2
DiamondCount(g) == IF g = 1 THEN 1 ELSE 5
Keys == Users \X {g \in GiftIds : GiftType(g) = 1}

GiftEvents ==
    { [userId |-> u, giftId |-> g, giftType |-> GiftType(g),
       diamondCount |-> DiamondCount(g), repeatCount |-> r, repeatEnd |-> e] :
         u \in Users, g \in GiftIds, r \in 0..MaxRepeat, e \in BOOLEAN }

\* the events the feed connector can produce: a streak-capable gift always
\* carries repeatCount >= 1; any other gift arrives once (repeatEnd set),
\* possibly without a repeatCount (0 stands for an absent one)
FeedGiftEvents ==
    { d \in GiftEvents : IF d.giftType = 1 THEN d.repeatCount >= 1 ELSE d.repeatEnd }

NoTimer == 0 - 1
\* a field missing from a request body or an event
Absent == 0 - 1

VARIABLES
    liveStatus,          \* 'DISCONNECTED' | 'CONNECTING' | 'ONLINE' | 'OFFLINE'
    isManualDisconnect,
    tiktok,              \* the current connector, 0 for null
    conn,                \* feed side of each connector: closed | connecting | open
    fetchPending,        \* connectTikTok calls awaiting fetchAvailableGifts()
    discPending,         \* disconnectTikTok calls awaiting tiktok.disconnect()
    sePending,           \* streamEnd handlers awaiting tiktok.disconnect()
    giftComboTracker,    \* Map key -> {data, timeout, counted}
    comboTimers,         \* armed combo timeouts, each with its closure
    totalGifts,
    totalDiamonds,
    giftCatalog,         \* sequence of gift ids
    groups,              \* sequence of [id, giftIds] in key order
    counters,            \* group id -> [count, diamonds]
    viewers,
    uniques,
    errorLog,            \* sequence of categories, newest first
    pendingBroadcast,
    broadcastTimer,      \* NoTimer, or the time left before it fires
    healthCheckTimer,    \* the health interval is armed
    connectionHealth,    \* [lastActivity, consecutiveFailures, isHealthy]
    lastUpdate,          \* the last 'update' emitted to the dashboards
    mutsPending,         \* debounced mutations not yet covered by a snapshot
    dirtyFirst,          \* time since the first of them
    dirtyLast,           \* time since the last of them
    cfgTarget,           \* cfg.target
    syncQueue,           \* sequence of [type, target, groups] items
    syncTimer,           \* NoTimer, or the time left before it fires
    syncFirst,           \* time since the first queued item was enqueued
    syncLast,            \* time since the last queued item was enqueued
    flushing,            \* flushSyncQueue calls awaiting a remote write
    lastWrite,           \* the last remote write that returned
    \* history variables
    cause,               \* the handler that last assigned liveStatus
    burst,               \* per key: none | open | timedout | closed
    applied,             \* per key: processGiftCount calls for the current burst
    lastSeen,            \* per key: repeatCount of the last non-terminal event
                         \* of the open burst, 0 when none is open
    unrouted             \* the last gift counted fell in no group

connVars == <<liveStatus, isManualDisconnect, tiktok, conn, fetchPending,
              discPending, sePending>>
comboVars == <<giftComboTracker, comboTimers>>
aggVars == <<totalGifts, totalDiamonds, giftCatalog, groups, counters,
             viewers, uniques>>
debounceVars == <<pendingBroadcast, broadcastTimer, mutsPending, dirtyFirst,
                  dirtyLast>>
healthVars == <<healthCheckTimer, connectionHealth>>
comboHist == <<burst, applied, lastSeen>>
histVars == <<comboHist, unrouted>>
syncVars == <<cfgTarget, syncQueue, syncTimer, syncFirst, syncLast, flushing,
              lastWrite>>
vars == <<connVars, comboVars, aggVars, debounceVars, healthVars, errorLog,
          lastUpdate, histVars, cause, syncVars>>

\* ----------------------------------------------------------------- helpers
Min(S) == CHOOSE x \in S : \A y \in S : x <= y

RECURSIVE SumRepeat(_)
SumRepeat(T) ==
    IF T = {} THEN 0
    ELSE LET t == CHOOSE x \in T : TRUE
         IN t.data.repeatCount + SumRepeat(T \ {t})

\* logError that records nothing
LogError_Silent(log, category) == log

\* logError without the pop
LogError_NoPop(log, category) == <<category>> \o log

\* logError: unshift, then pop when longer than MAX_ERROR_LOG_SIZE
LogError(log, category) ==
    LET l == <<category>> \o log
    IN IF Len(l) > MAX_ERROR_LOG_SIZE THEN SubSeq(l, 1, Len(l) - 1) ELSE l

\* the log is followed while it is nearly empty or nearly full
CanLog ==
    \/ Len(errorLog) < MaxErrors
    \/ Len(errorLog) >= MAX_ERROR_LOG_SIZE - MaxErrors

\* recordActivity() without the reset of consecutiveFailures
RecordActivity_KeepFailures(h) ==
    [h EXCEPT !.lastActivity = "recent", !.isHealthy = TRUE,
              !.rescued = h.consecutiveFailures > 0]

\* recordActivity(); rescued is history: this call cleared a count that
\* stale checks had raised
RecordActivity(h) ==
    [h EXCEPT !.lastActivity = "recent", !.consecutiveFailures = 0,
              !.isHealthy = TRUE, !.rescued = h.consecutiveFailures > 0]

buildPayload ==
    [counters |-> counters,
     groups |-> groups,
     target |-> cfgTarget,
     stats |-> [liveStatus |-> liveStatus,
                username |-> "USERNAME",
                liveViewers |-> viewers,
                uniqueJoins |-> Cardinality(uniques),
                totalGifts |-> totalGifts,
                totalDiamonds |-> totalDiamonds,
                errorCount |-> Len(errorLog),
                lastError |-> IF Len(errorLog) > 0 THEN errorLog[1] ELSE "null"]]

\* a broadcast whose payload was built before the handler's assignments
Broadcast_Stale ==
    lastUpdate' = [via |-> "immediate", covers |-> 0, payload |-> buildPayload]

\* broadcast(): io.emit('update', buildPayload()) at the end of a handler
Broadcast ==
    lastUpdate' = [via |-> "immediate", covers |-> 0, payload |-> buildPayload']

\* debouncedBroadcast() without `pendingBroadcast = true`
DebouncedBroadcast_NoDirty ==
    /\ pendingBroadcast' = pendingBroadcast
    /\ broadcastTimer' = BROADCAST_DEBOUNCE_MS
    /\ mutsPending' = IF mutsPending < MaxMuts THEN mutsPending + 1 ELSE MaxMuts
    /\ dirtyFirst' = IF pendingBroadcast THEN dirtyFirst ELSE 0
    /\ dirtyLast' = 0

\* debouncedBroadcast() that arms the timer only when none is armed
DebouncedBroadcast_NoReset ==
    /\ pendingBroadcast' = TRUE
    /\ broadcastTimer' = IF broadcastTimer = NoTimer THEN BROADCAST_DEBOUNCE_MS
                         ELSE broadcastTimer
    /\ mutsPending' = IF mutsPending < MaxMuts THEN mutsPending + 1 ELSE MaxMuts
    /\ dirtyFirst' = IF pendingBroadcast THEN dirtyFirst ELSE 0
    /\ dirtyLast' = 0

\* debouncedBroadcast(): mark dirty, clear the armed timer, arm a new one
DebouncedBroadcast ==
    /\ pendingBroadcast' = TRUE
    /\ broadcastTimer' = BROADCAST_DEBOUNCE_MS
    /\ mutsPending' = IF mutsPending < MaxMuts THEN mutsPending + 1 ELSE MaxMuts
    /\ dirtyFirst' = IF pendingBroadcast THEN dirtyFirst ELSE 0
    /\ dirtyLast' = 0

\* initCounters() that also keeps the counters of groups no longer in the table
InitCounters_KeepAll(gs, old) ==
    [g \in {gs[i].id : i \in 1..Len(gs)} \cup DOMAIN old |->
        IF g \in DOMAIN old THEN old[g] ELSE [count |-> 0, diamonds |-> 0]]

\* initCounters() that never preserves a value
InitCounters_Zero(gs, old) ==
    [g \in {gs[i].id : i \in 1..Len(gs)} |-> [count |-> 0, diamonds |-> 0]]

\* initCounters(preserveValues) called with old = preserveValues ? counters : {}
InitCounters(gs, old) ==
    [g \in {gs[i].id : i \in 1..Len(gs)} |->
        IF g \in DOMAIN old THEN old[g] ELSE [count |-> 0, diamonds |-> 0]]

\* the last matching key instead of Object.keys(groups).find(...)
FindGroup_Last(gs, giftId) ==
    LET idx == {i \in 1..Len(gs) : giftId \in gs[i].giftIds}
    IN IF idx = {} THEN "" ELSE gs[CHOOSE i \in idx : \A j \in idx : j <= i].id

\* Object.keys(groups).find(k => (groups[k].giftIds || []).includes(giftId))
FindGroup(gs, giftId) ==
    LET idx == {i \in 1..Len(gs) : giftId \in gs[i].giftIds}
    IN IF idx = {} THEN "" ELSE gs[Min(idx)].id

KeyOf(data) == <<data.userId, data.giftId>>

\* giftComboTracker.delete(key)
\* a delete that leaves the entry in the map
MapDelete_Keep(m, key) == m

\* giftComboTracker.delete(key)
MapDelete(m, key) == [k \in DOMAIN m \ {key} |-> m[k]]
\* giftComboTracker.set(key, entry)
MapSet(m, key, e) == [k \in DOMAIN m \cup {key} |-> IF k = key THEN e ELSE m[k]]
EmptyMap == [k \in {} |-> 0]

InitGroups ==
    << [id |-> "g1", giftIds |-> {1}], [id |-> "g2", giftIds |-> {1, 2}] >>

\* no remote write has returned yet
NoWrite == [type |-> "none", ok |-> TRUE, target |-> 0, groups |-> <<>>]

Init ==
    /\ liveStatus = "DISCONNECTED"
    /\ isManualDisconnect = FALSE
    /\ tiktok = 0
    /\ conn = [c \in Connectors |-> "closed"]
    /\ fetchPending = 0
    /\ discPending = 0
    /\ sePending = 0
    /\ giftComboTracker = EmptyMap
    /\ comboTimers = {}
    /\ totalGifts = 0
    /\ totalDiamonds = 0
    /\ giftCatalog = <<>>
    /\ groups = InitGroups
    /\ counters = InitCounters(InitGroups, EmptyMap)
    /\ viewers = 0
    /\ uniques = {}
    /\ errorLog = <<>>
    /\ pendingBroadcast = FALSE
    /\ broadcastTimer = NoTimer
    /\ mutsPending = 0
    /\ dirtyFirst = 0
    /\ dirtyLast = 0
    /\ healthCheckTimer = FALSE
    /\ connectionHealth = [lastActivity |-> "null", consecutiveFailures |-> 0,
                           isHealthy |-> TRUE, rescued |-> FALSE]
    /\ burst = [k \in Keys |-> "none"]
    /\ applied = [k \in Keys |-> 0]
    /\ lastSeen = [k \in Keys |-> 0]
    /\ unrouted = FALSE
    /\ cause = "init"
    /\ cfgTarget = 1
    /\ syncQueue = <<>>
    /\ syncTimer = NoTimer
    /\ syncFirst = 0
    /\ syncLast = 0
    /\ flushing = <<>>
    /\ lastWrite = NoWrite
    /\ lastUpdate = [via |-> "none", covers |-> 0, payload |-> buildPayload]

\* ---------------------------------------------------------------- aggregator
\* processGiftCount(data, delta), called with connectionHealth = h
ProcessGiftCount(data, delta, h) ==
    IF delta <= 0
    THEN /\ connectionHealth' = h
         /\ UNCHANGED <<totalGifts, totalDiamonds, giftCatalog, counters,
                        debounceVars, unrouted>>
    ELSE /\ connectionHealth' = RecordActivity(h)
         /\ totalGifts' = totalGifts + delta
         /\ totalDiamonds' = totalDiamonds + data.diamondCount * delta
         /\ giftCatalog' =
               IF \E i \in 1..Len(giftCatalog) : giftCatalog[i] = data.giftId
               THEN giftCatalog
               ELSE Append(giftCatalog, data.giftId)
         /\ LET gid == FindGroup(groups, data.giftId)
            IN counters' =
                 IF gid # ""
                 THEN [counters EXCEPT
                         ![gid] = [count |-> @.count + delta,
                                   diamonds |-> @.diamonds + data.diamondCount * delta]]
                 ELSE counters
         /\ unrouted' = (FindGroup(groups, data.giftId) = "")
         /\ DebouncedBroadcast

\* ------------------------------------------------------------- combo tracker
\* history of the burst of one key: a call of processGiftCount for it
Applied(key, ending) ==
    /\ applied' = [applied EXCEPT ![key] = @ + 1]
    /\ burst' = [burst EXCEPT ![key] = ending]
    /\ lastSeen' = [lastSeen EXCEPT ![key] = 0]

\* every pending combo is dropped: giftComboTracker.forEach(clearTimeout); clear()
ClearCombos ==
    /\ giftComboTracker' = EmptyMap
    /\ comboTimers' = {}
    /\ burst' = [k \in Keys |-> "none"]
    /\ applied' = [k \in Keys |-> 0]
    /\ lastSeen' = [k \in Keys |-> 0]
    /\ UNCHANGED unrouted

\* trackGiftCombo() without the clearTimeout of the entry it replaces
TrackGiftCombo_KeepTimer(data) ==
    LET key == KeyOf(data)
        timeout == [key |-> key, data |-> data]
    IN /\ comboTimers' = comboTimers \cup {timeout}
       /\ giftComboTracker' =
             MapSet(giftComboTracker, key,
                    [data |-> data, timeout |-> timeout, counted |-> FALSE])

\* trackGiftCombo(userId, giftId, data)
TrackGiftCombo(data) ==
    LET key == KeyOf(data)
        cleared == IF key \in DOMAIN giftComboTracker
                   THEN comboTimers \ {giftComboTracker[key].timeout}
                   ELSE comboTimers
        timeout == [key |-> key, data |-> data]
    IN /\ comboTimers' = cleared \cup {timeout}
       /\ giftComboTracker' =
             MapSet(giftComboTracker, key,
                    [data |-> data, timeout |-> timeout, counted |-> FALSE])

\* the timeout callback armed by trackGiftCombo
ComboTimeout(t) ==
    /\ UNCHANGED syncVars
    /\ t \in comboTimers
    /\ comboTimers' = comboTimers \ {t}
    /\ IF t.key \in DOMAIN giftComboTracker /\ ~giftComboTracker[t.key].counted
       THEN /\ ProcessGiftCount(t.data, t.data.repeatCount, connectionHealth)
            /\ giftComboTracker' = MapDelete(giftComboTracker, t.key)
            /\ Applied(t.key, "timedout")
       ELSE UNCHANGED <<giftComboTracker, aggVars, connectionHealth,
                        debounceVars, histVars>>
    /\ UNCHANGED <<connVars, groups, viewers, uniques, healthCheckTimer,
                   errorLog, lastUpdate, cause>>

\* the delta of a terminal event taken from the last non-terminal event seen
TerminalDelta_LastSeen(data) == lastSeen[KeyOf(data)]

\* processGiftCount(data, data.repeatCount) of a terminal (repeatEnd) event
TerminalDelta(data) == data.repeatCount

\* the delta of a non-streak gift without the default of 1
NonStreakDelta_Raw(data) == data.repeatCount

\* const delta = data.repeatCount || 1
NonStreakDelta(data) == IF data.repeatCount = 0 THEN 1 ELSE data.repeatCount

\* what the feed may still send without exceeding MaxTotal counted gifts
Affordable(d) ==
    totalGifts + SumRepeat(comboTimers) + (IF d.repeatCount = 0 THEN 1 ELSE d.repeatCount)
        <= MaxTotal

\* tiktok.on('gift')
FeedGift(c, data) ==
    /\ UNCHANGED syncVars
    /\ conn[c] = "open"
    /\ data \in FeedGiftEvents
    /\ Affordable(data)
    /\ LET key == KeyOf(data)
           h == RecordActivity(connectionHealth)
       IN IF data.giftType = 1
          THEN IF data.repeatEnd
               THEN IF key \in DOMAIN giftComboTracker
                    THEN LET tracker == giftComboTracker[key]
                         IN /\ comboTimers' = comboTimers \ {tracker.timeout}
                            /\ giftComboTracker' = MapDelete(giftComboTracker, key)
                            /\ IF ~tracker.counted
                               THEN /\ ProcessGiftCount(data, TerminalDelta(data), h)
                                    /\ Applied(key, "closed")
                               ELSE /\ connectionHealth' = h
                                    /\ UNCHANGED <<totalGifts, totalDiamonds,
                                                   giftCatalog, counters,
                                                   debounceVars, histVars>>
                    ELSE /\ ProcessGiftCount(data, TerminalDelta(data), h)
                         /\ applied' = [applied EXCEPT ![key] =
                               IF burst[key] = "timedout" THEN @ + 1 ELSE 1]
                         /\ burst' = [burst EXCEPT ![key] = "closed"]
                         /\ UNCHANGED <<comboVars, lastSeen>>
               ELSE /\ TrackGiftCombo(data)
                    /\ connectionHealth' = h
                    /\ lastSeen' = [lastSeen EXCEPT ![key] = data.repeatCount]
                    /\ burst' = [burst EXCEPT ![key] = "open"]
                    /\ applied' = [applied EXCEPT ![key] =
                          IF burst[key] = "open" THEN @ ELSE 0]
                    /\ UNCHANGED <<totalGifts, totalDiamonds, giftCatalog,
                                   counters, debounceVars, unrouted>>
          ELSE /\ ProcessGiftCount(data, NonStreakDelta(data), h)
               /\ UNCHANGED <<comboVars, comboHist>>
    /\ UNCHANGED <<connVars, groups, viewers, uniques, healthCheckTimer,
                   errorLog, lastUpdate, cause>>

\* --------------------------------------------------------- connection manager
FullCatalog == <<1, 2>>

\* "NO AUTO-RECONNECT": the server keeps no reconnect timer and no attempt
\* counter, so none is ever armed
reconnectTimer == NoTimer

\* the reconnection settings and backoff rule of the enhancement notes
BASE_RECONNECT_DELAY == 2000
MAX_RECONNECT_DELAY == 60000
MAX_RECONNECT_ATTEMPTS == 10
ReconnectDelay(n) == Min({BASE_RECONNECT_DELAY * 2^n, MAX_RECONNECT_DELAY})

\* connectTikTok() up to `await tiktok.connect()`
\* a guard that lets a call through while an attempt is pending
AlreadyConnecting_OnlineOnly == liveStatus = "ONLINE"

AlreadyConnecting == liveStatus \in {"CONNECTING", "ONLINE"}

ConnectTikTok ==
    IF AlreadyConnecting
    THEN UNCHANGED vars
    ELSE /\ UNCHANGED syncVars
         /\ \E c \in Connectors :
               /\ conn[c] = "closed"
               /\ \A b \in Connectors : conn[b] = "closed" => c <= b
               /\ tiktok' = c
               /\ conn' = [conn EXCEPT ![c] = "connecting"]
         /\ isManualDisconnect' = FALSE
         /\ liveStatus' = "CONNECTING"
         /\ cause' = "connect"
         /\ UNCHANGED <<fetchPending, discPending, sePending, comboVars, aggVars,
                        debounceVars, healthVars, errorLog, histVars>>
         /\ Broadcast

\* tiktok.connect() succeeds: the connector emits 'connected', then
\* connectTikTok resumes up to `await tiktok.fetchAvailableGifts()`; with
\* tiktok null that call throws and the catch block runs
ConnectResolve(c) ==
    /\ UNCHANGED syncVars
    /\ conn[c] = "connecting"
    /\ conn' = [conn EXCEPT ![c] = "open"]
    /\ connectionHealth' = RecordActivity(connectionHealth)
    /\ healthCheckTimer' = TRUE
    /\ IF tiktok = 0
       THEN /\ CanLog
            /\ errorLog' = LogError(errorLog, "CONNECTION")
            /\ liveStatus' = "OFFLINE"
            /\ cause' = "connectFailed"
            /\ UNCHANGED fetchPending
       ELSE /\ fetchPending < MaxInFlight
            /\ fetchPending' = fetchPending + 1
            /\ liveStatus' = "ONLINE"
            /\ cause' = "connected"
            /\ UNCHANGED errorLog
    /\ UNCHANGED <<isManualDisconnect, tiktok, discPending, sePending, comboVars,
                   aggVars, debounceVars, histVars>>
    /\ Broadcast

\* tiktok.connect() throws: the catch block of connectTikTok
ConnectReject(c) ==
    /\ UNCHANGED syncVars
    /\ conn[c] = "connecting"
    /\ CanLog
    /\ conn' = [conn EXCEPT ![c] = "closed"]
    /\ errorLog' = LogError(errorLog, "CONNECTION")
    /\ liveStatus' = "OFFLINE"
    /\ cause' = "connectFailed"
    /\ UNCHANGED <<isManualDisconnect, tiktok, fetchPending, discPending,
                   sePending, comboVars, aggVars, debounceVars, healthVars,
                   histVars>>
    /\ Broadcast

\* connectTikTok() after `await tiktok.fetchAvailableGifts().catch(() => [])`
FetchReturn ==
    /\ UNCHANGED syncVars
    /\ fetchPending > 0
    /\ fetchPending' = fetchPending - 1
    /\ \E list \in {<<>>, FullCatalog} : giftCatalog' = list
    /\ UNCHANGED <<liveStatus, isManualDisconnect, tiktok, conn, discPending,
                   sePending, comboVars, totalGifts, totalDiamonds, groups,
                   counters, viewers, uniques, debounceVars, healthVars,
                   errorLog, histVars, cause>>
    /\ Broadcast

\* disconnectTikTok() up to `await tiktok.disconnect()`, or to its end when
\* tiktok is null; the caller has set every variable not named here
DisconnectCall ==
    /\ isManualDisconnect' = TRUE
    /\ IF tiktok # 0
       THEN /\ discPending < MaxDisconnects
            /\ discPending' = discPending + 1
            /\ conn' = [conn EXCEPT ![tiktok] = IF @ = "open" THEN "closed" ELSE @]
            /\ UNCHANGED <<liveStatus, tiktok, comboVars, histVars,
                            lastUpdate, cause>>
       ELSE /\ ClearCombos
            /\ liveStatus' = "DISCONNECTED"
            /\ cause' = "disconnect"
            /\ UNCHANGED <<tiktok, conn, discPending>>
            /\ Broadcast

\* POST /api/disconnect
ManualDisconnect ==
    /\ UNCHANGED syncVars
    /\ UNCHANGED <<fetchPending, sePending, aggVars, debounceVars, healthVars,
                   errorLog>>
    /\ DisconnectCall

\* disconnectTikTok() after `await tiktok.disconnect()`
DisconnectReturn ==
    /\ UNCHANGED syncVars
    /\ discPending > 0
    /\ discPending' = discPending - 1
    /\ \E ok \in BOOLEAN :
          /\ ok \/ CanLog
          /\ errorLog' = IF ok THEN errorLog ELSE LogError(errorLog, "DISCONNECT")
    /\ tiktok' = 0
    /\ ClearCombos
    /\ liveStatus' = "DISCONNECTED"
    /\ cause' = "disconnect"
    /\ UNCHANGED <<isManualDisconnect, conn, fetchPending, sePending, aggVars,
                   debounceVars, healthVars>>
    /\ Broadcast

\* tiktok.on('disconnected')
FeedDisconnected(c) ==
    /\ UNCHANGED syncVars
    /\ conn[c] = "open"
    /\ CanLog
    /\ conn' = [conn EXCEPT ![c] = "closed"]
    /\ errorLog' = LogError(errorLog, "CONNECTION")
    /\ healthCheckTimer' = FALSE
    /\ ClearCombos
    /\ liveStatus' = "OFFLINE"
    /\ cause' = "feedDisconnected"
    /\ UNCHANGED <<isManualDisconnect, tiktok, fetchPending, discPending,
                   sePending, aggVars, debounceVars, connectionHealth>>
    /\ Broadcast

\* tiktok.on('error')
FeedError(c) ==
    /\ UNCHANGED syncVars
    /\ conn[c] \in {"connecting", "open"}
    /\ CanLog
    /\ errorLog' = LogError(errorLog, "CONNECTION")
    /\ liveStatus' = "OFFLINE"
    /\ cause' = "feedError"
    /\ UNCHANGED <<isManualDisconnect, tiktok, conn, fetchPending, discPending,
                   sePending, comboVars, aggVars, debounceVars, healthVars,
                   histVars>>
    /\ Broadcast

\* tiktok.on('streamEnd') up to `await tiktok.disconnect()`, or to its end
\* when tiktok is null; the connector closes itself after emitting the event
FeedStreamEnd(c) ==
    /\ UNCHANGED syncVars
    /\ conn[c] = "open"
    /\ CanLog
    /\ errorLog' = LogError(errorLog, "STREAM")
    /\ healthCheckTimer' = FALSE
    /\ ClearCombos
    /\ conn' = [b \in Connectors |->
                  IF b = c \/ (b = tiktok /\ conn[b] = "open") THEN "closed"
                  ELSE conn[b]]
    /\ UNCHANGED <<isManualDisconnect, tiktok, fetchPending, discPending,
                   aggVars, debounceVars, connectionHealth>>
    /\ IF tiktok # 0
       THEN /\ sePending < MaxInFlight
            /\ sePending' = sePending + 1
            /\ UNCHANGED <<liveStatus, lastUpdate, cause>>
       ELSE /\ liveStatus' = "OFFLINE"
            /\ cause' = "streamEnd"
            /\ UNCHANGED sePending
            /\ Broadcast

\* the streamEnd handler after the await, without `liveStatus = 'OFFLINE'`
StreamEndReturn_KeepStatus ==
    /\ UNCHANGED syncVars
    /\ sePending > 0
    /\ sePending' = sePending - 1
    /\ tiktok' = 0
    /\ UNCHANGED <<liveStatus, cause, isManualDisconnect, conn, fetchPending,
                   discPending, comboVars, aggVars, debounceVars, healthVars,
                   errorLog, histVars>>
    /\ Broadcast

\* the streamEnd handler after `await tiktok.disconnect()`
StreamEndReturn ==
    /\ UNCHANGED syncVars
    /\ sePending > 0
    /\ sePending' = sePending - 1
    /\ tiktok' = 0
    /\ liveStatus' = "OFFLINE"
    /\ cause' = "streamEnd"
    /\ UNCHANGED <<isManualDisconnect, conn, fetchPending, discPending,
                   comboVars, aggVars, debounceVars, healthVars, errorLog,
                   histVars>>
    /\ Broadcast

\* --------------------------------------------------------- other feed events
\* tiktok.on('member'); uid "" stands for an event without uniqueId
FeedMember(c, uid) ==
    /\ UNCHANGED syncVars
    /\ conn[c] = "open"
    /\ connectionHealth' = RecordActivity(connectionHealth)
    /\ IF uid # ""
       THEN /\ uniques' = uniques \cup {uid}
            /\ DebouncedBroadcast
       ELSE UNCHANGED <<uniques, debounceVars>>
    /\ UNCHANGED <<connVars, comboVars, totalGifts, totalDiamonds, giftCatalog,
                   groups, counters, viewers, healthCheckTimer, errorLog,
                   lastUpdate, histVars, cause>>

\* tiktok.on('roomUser'); v = NoTimer stands for an undefined viewerCount
FeedRoomUser(c, v) ==
    /\ UNCHANGED syncVars
    /\ conn[c] = "open"
    /\ connectionHealth' = RecordActivity(connectionHealth)
    /\ IF v >= 0
       THEN /\ viewers' = v
            /\ DebouncedBroadcast
       ELSE UNCHANGED <<viewers, debounceVars>>
    /\ UNCHANGED <<connVars, comboVars, totalGifts, totalDiamonds, giftCatalog,
                   groups, counters, uniques, healthCheckTimer, errorLog,
                   lastUpdate, histVars, cause>>

\* tiktok.on('like') and tiktok.on('chat')
FeedLikeChat(c) ==
    /\ UNCHANGED syncVars
    /\ conn[c] = "open"
    /\ connectionHealth' = RecordActivity(connectionHealth)
    /\ UNCHANGED <<connVars, comboVars, aggVars, debounceVars, healthCheckTimer,
                   errorLog, lastUpdate, histVars, cause>>

\* ------------------------------------------------------------ health monitor
\* more than 2 x HEALTH_CHECK_TIMEOUT passes without a feed event
ActivityGoesStale ==
    /\ UNCHANGED syncVars
    /\ connectionHealth.lastActivity = "recent"
    /\ connectionHealth' = [connectionHealth EXCEPT !.lastActivity = "stale"]
    /\ UNCHANGED <<connVars, comboVars, aggVars, debounceVars, healthCheckTimer,
                   errorLog, lastUpdate, histVars, cause>>

\* a threshold that the count has to exceed
TooManyFailures_Strict(n) == n > HEALTH_FAILURE_THRESHOLD

\* connectionHealth.consecutiveFailures >= 3
TooManyFailures(n) == n >= HEALTH_FAILURE_THRESHOLD

\* the setInterval callback of startHealthMonitoring, up to the await inside
\* disconnectTikTok()
HealthCheck ==
    /\ UNCHANGED syncVars
    /\ healthCheckTimer
    /\ liveStatus = "ONLINE"
    /\ UNCHANGED <<fetchPending, sePending, aggVars, debounceVars,
                   healthCheckTimer>>
    /\ IF connectionHealth.lastActivity = "stale"
       THEN /\ connectionHealth.consecutiveFailures < MaxStale
            /\ connectionHealth' =
                  [connectionHealth EXCEPT !.consecutiveFailures = @ + 1,
                                           !.isHealthy = FALSE]
            /\ IF TooManyFailures(connectionHealth.consecutiveFailures + 1)
               THEN /\ CanLog
                    /\ errorLog' = LogError(errorLog, "HEALTH")
                    /\ DisconnectCall
               ELSE UNCHANGED <<connVars, comboVars, errorLog, lastUpdate,
                                histVars, cause>>
       ELSE /\ connectionHealth' =
                  [connectionHealth EXCEPT !.consecutiveFailures = 0,
                                           !.isHealthy = TRUE]
            /\ UNCHANGED <<connVars, comboVars, errorLog, lastUpdate, histVars,
                            cause>>

\* ------------------------------------------------------- broadcast debouncer
\* the setTimeout callback of debouncedBroadcast
DebounceFire ==
    /\ UNCHANGED syncVars
    /\ broadcastTimer # NoTimer
    /\ IF pendingBroadcast
       THEN /\ lastUpdate' = [via |-> "debounced", covers |-> mutsPending,
                              payload |-> buildPayload]
            /\ pendingBroadcast' = FALSE
       ELSE UNCHANGED <<lastUpdate, pendingBroadcast>>
    /\ broadcastTimer' = NoTimer
    /\ mutsPending' = 0
    /\ dirtyFirst' = 0
    /\ dirtyLast' = 0
    /\ UNCHANGED <<connVars, comboVars, aggVars, healthVars, errorLog, histVars, cause>>

\* POST /api/errors/clear
ClearErrors ==
    /\ UNCHANGED syncVars
    /\ errorLog # <<>>
    /\ errorLog' = <<>>
    /\ UNCHANGED <<connVars, comboVars, aggVars, debounceVars, healthVars,
                   histVars, cause>>
    /\ Broadcast

\* ------------------------------------------------------------------ routes
\* POST /api/counter
\* a group check that accepts every id
HasGroup_Any(gs, groupId) == TRUE

\* keys every object literal inherits: groups[k] and counters[k] are defined
\* for them although k is no key of the table
ProtoKeys == {"constructor"}

\* groups[groupId] is truthy
HasGroup(gs, groupId) ==
    \/ \E i \in 1..Len(gs) : gs[i].id = groupId
    \/ groupId \in ProtoKeys

\* return res.status(404).json({ error: 'group not found' })
NotFound == UNCHANGED vars

PostCounter(groupId, diamonds, count) ==
    IF ~HasGroup(groups, groupId)
    THEN NotFound
    ELSE /\ UNCHANGED syncVars
         /\ LET old == IF groupId \in DOMAIN counters THEN counters[groupId]
                       ELSE [count |-> 0, diamonds |-> 0]
                new == [count |-> IF count # Absent THEN count ELSE old.count,
                        diamonds |-> IF diamonds # Absent THEN diamonds
                                     ELSE old.diamonds]
            IN counters' = IF groupId \in ProtoKeys
                           THEN counters
                           ELSE MapSet(counters, groupId, new)
         /\ DebouncedBroadcast
         /\ UNCHANGED <<connVars, comboVars, totalGifts, totalDiamonds,
                        giftCatalog, groups, viewers, uniques, healthVars,
                        errorLog, lastUpdate, histVars, cause>>

\* POST /api/reset calling initCounters() with its default preserveValues
PostReset_Preserve ==
    /\ UNCHANGED syncVars
    /\ counters' = InitCounters(groups, counters)
    /\ uniques' = {}
    /\ viewers' = 0
    /\ totalGifts' = 0
    /\ totalDiamonds' = 0
    /\ UNCHANGED <<connVars, comboVars, giftCatalog, groups, debounceVars,
                   healthVars, errorLog, histVars, cause>>
    /\ Broadcast

\* POST /api/reset
PostReset ==
    /\ UNCHANGED syncVars
    /\ counters' = InitCounters(groups, EmptyMap)
    /\ uniques' = {}
    /\ viewers' = 0
    /\ totalGifts' = 0
    /\ totalDiamonds' = 0
    /\ UNCHANGED <<connVars, comboVars, giftCatalog, groups, debounceVars,
                   healthVars, errorLog, histVars, cause>>
    /\ Broadcast

\* ---------------------------------------------------------------- sync queue
Targets == {1, 2}
GroupTables ==
    { InitGroups,
      << [id |-> "g1", giftIds |-> {1}] >>,
      << [id |-> "g3", giftIds |-> {1, 2}], [id |-> "g1", giftIds |-> {1}] >> }

\* the items pushed by queueBackendSync; a config item holds a reference to
\* cfg, its target field records the value cfg.target had at the push
ConfigItem(t) == [type |-> "config", target |-> t, groups |-> <<>>]
GroupsItem(table) == [type |-> "groups", target |-> 0, groups |-> table]

OfType(items, type) == SelectSeq(items, LAMBDA it : it.type = type)

\* the first item of a group instead of groupedSyncs[type][length - 1]
Latest_First(items) == items[1]

\* groupedSyncs[type][groupedSyncs[type].length - 1]
Latest(items) == items[Len(items)]

\* a flush that leaves the timer handle in place
FlushSyncQueue_KeepTimer(items) ==
    LET configs == OfType(items, "config")
        grps == OfType(items, "groups")
        grpData == IF grps # <<>> THEN Latest(grps).groups ELSE <<>>
    IN /\ Len(flushing) < MaxFlushes
       /\ syncQueue' = <<>>
       /\ syncTimer' = syncTimer
       /\ syncFirst' = 0
       /\ syncLast' = 0
       /\ flushing' = Append(flushing,
             [count |-> Len(items),
              awaiting |-> IF configs # <<>> THEN "config" ELSE "groups",
              config |-> configs # <<>>,
              target |-> IF configs # <<>> THEN cfgTarget' ELSE 0,
              hasGroups |-> grps # <<>>,
              groups |-> grpData])

\* flushSyncQueue() with itemsToSync = items, up to its first await: the
\* config write is issued with the cfg object as it is now, or, with no
\* config item, the groups write with the data of the latest groups item
FlushSyncQueue(items) ==
    LET configs == OfType(items, "config")
        grps == OfType(items, "groups")
        grpData == IF grps # <<>> THEN Latest(grps).groups ELSE <<>>
    IN /\ Len(flushing) < MaxFlushes
       /\ syncQueue' = <<>>
       /\ syncTimer' = NoTimer
       /\ syncFirst' = 0
       /\ syncLast' = 0
       /\ flushing' = Append(flushing,
             [count |-> Len(items),
              awaiting |-> IF configs # <<>> THEN "config" ELSE "groups",
              config |-> configs # <<>>,
              target |-> IF configs # <<>> THEN cfgTarget' ELSE 0,
              hasGroups |-> grps # <<>>,
              groups |-> grpData])

\* queueBackendSync() that arms the timer only when none is armed
QueueBackendSync_NoReset(item) ==
    LET q == Append(syncQueue, item)
    IN /\ IF Len(q) >= MAX_SYNC_QUEUE_SIZE
          THEN FlushSyncQueue(q)
          ELSE /\ syncQueue' = q
               /\ syncTimer' = IF syncTimer = NoTimer THEN SYNC_BATCH_DELAY
                               ELSE syncTimer
               /\ syncFirst' = IF syncQueue = <<>> THEN 0 ELSE syncFirst
               /\ syncLast' = 0
               /\ UNCHANGED flushing
       /\ UNCHANGED lastWrite

\* queueBackendSync() that flushes only once the queue is longer than the maximum
QueueBackendSync_Late(item) ==
    LET q == Append(syncQueue, item)
    IN /\ IF Len(q) > MAX_SYNC_QUEUE_SIZE
          THEN FlushSyncQueue(q)
          ELSE /\ syncQueue' = q
               /\ syncTimer' = SYNC_BATCH_DELAY
               /\ syncFirst' = IF syncQueue = <<>> THEN 0 ELSE syncFirst
               /\ syncLast' = 0
               /\ UNCHANGED flushing
       /\ UNCHANGED lastWrite

\* queueBackendSync(type, data)
QueueBackendSync(item) ==
    LET q == Append(syncQueue, item)
    IN /\ IF Len(q) >= MAX_SYNC_QUEUE_SIZE
          THEN FlushSyncQueue(q)
          ELSE /\ syncQueue' = q
               /\ syncTimer' = SYNC_BATCH_DELAY
               /\ syncFirst' = IF syncQueue = <<>> THEN 0 ELSE syncFirst
               /\ syncLast' = 0
               /\ UNCHANGED flushing
       /\ UNCHANGED lastWrite

\* the setTimeout callback of queueBackendSync: flushSyncQueue()
SyncTimerFire ==
    /\ syncTimer # NoTimer
    /\ cfgTarget' = cfgTarget
    /\ IF syncQueue = <<>>
       THEN UNCHANGED <<syncQueue, syncTimer, syncFirst, syncLast, flushing>>
       ELSE FlushSyncQueue(syncQueue)
    /\ UNCHANGED <<lastWrite, connVars, comboVars, aggVars, debounceVars,
                   healthVars, errorLog, lastUpdate, histVars, cause>>

\* flushSyncQueue() after `await saveConfigToBackend(...)`: the write has
\* returned, failed or not (saveConfigToBackend catches and prints the
\* failure); the groups write is issued next when there is one
ConfigWriteReturn(i, ok) ==
    /\ i \in 1..Len(flushing)
    /\ flushing[i].awaiting = "config"
    /\ lastWrite' = [type |-> "config", ok |-> ok, target |-> flushing[i].target,
                     groups |-> <<>>]
    /\ flushing' =
          IF flushing[i].hasGroups
          THEN [flushing EXCEPT ![i].awaiting = "groups"]
          ELSE SubSeq(flushing, 1, i - 1) \o SubSeq(flushing, i + 1, Len(flushing))
    /\ UNCHANGED <<cfgTarget, syncQueue, syncTimer, syncFirst, syncLast,
                   connVars, comboVars, aggVars, debounceVars, healthVars,
                   errorLog, lastUpdate, histVars, cause>>

\* flushSyncQueue() after `await saveGiftGroupsToBackend(...)`
GroupsWriteReturn(i, ok) ==
    /\ i \in 1..Len(flushing)
    /\ flushing[i].awaiting = "groups"
    /\ lastWrite' = [type |-> "groups", ok |-> ok, target |-> 0,
                     groups |-> flushing[i].groups]
    /\ flushing' = SubSeq(flushing, 1, i - 1) \o SubSeq(flushing, i + 1, Len(flushing))
    /\ UNCHANGED <<cfgTarget, syncQueue, syncTimer, syncFirst, syncLast,
                   connVars, comboVars, aggVars, debounceVars, healthVars,
                   errorLog, lastUpdate, histVars, cause>>

\* POST /api/target; t = 0 stands for a body whose target is missing or 0
PostTarget(t) ==
    /\ cfgTarget' = IF t # 0 THEN t ELSE cfgTarget
    /\ QueueBackendSync(ConfigItem(cfgTarget'))
    /\ DebouncedBroadcast
    /\ UNCHANGED <<connVars, comboVars, aggVars, healthVars, errorLog,
                   lastUpdate, histVars, cause>>

\* POST /api/groups
PostGroups(table) ==
    /\ groups' = table
    /\ cfgTarget' = cfgTarget
    /\ QueueBackendSync(GroupsItem(table))
    /\ counters' = InitCounters(table, counters)
    /\ DebouncedBroadcast
    /\ UNCHANGED <<connVars, comboVars, totalGifts, totalDiamonds, giftCatalog,
                   viewers, uniques, healthVars, errorLog, lastUpdate, histVars,
                   cause>>

\* time passes while the sync timer runs; a due timer fires first
SyncTick ==
    /\ syncTimer > 0
    /\ LET d == IF syncTimer < SyncTickMs THEN syncTimer ELSE SyncTickMs
       IN /\ syncFirst + d <= MaxSyncAge
          /\ syncTimer' = syncTimer - d
          /\ syncFirst' = syncFirst + d
          /\ syncLast' = syncLast + d
    /\ UNCHANGED <<cfgTarget, syncQueue, flushing, lastWrite, connVars,
                   comboVars, aggVars, debounceVars, healthVars, errorLog,
                   lastUpdate, histVars, cause>>

\* the sync timer fires once SYNC_BATCH_DELAY has passed
SyncDue ==
    /\ syncTimer = 0
    /\ SyncTimerFire

\* ---------------------------------------------------------------------- time
\* time passes while the debounce timer runs; a due timer fires first
Tick ==
    /\ UNCHANGED syncVars
    /\ broadcastTimer > 0
    /\ LET d == IF broadcastTimer < TickMs THEN broadcastTimer ELSE TickMs
       IN /\ dirtyFirst + d <= MaxAge
          /\ broadcastTimer' = broadcastTimer - d
          /\ dirtyFirst' = dirtyFirst + d
          /\ dirtyLast' = dirtyLast + d
    /\ UNCHANGED <<connVars, comboVars, aggVars, pendingBroadcast, mutsPending,
                   healthVars, errorLog, lastUpdate, histVars, cause>>

\* the debounce timer fires once BROADCAST_DEBOUNCE_MS have passed
DebounceDue ==
    /\ broadcastTimer = 0
    /\ DebounceFire

\* no disconnect call is awaiting the connector
Quiet == discPending < MaxInFlight \/ tiktok = 0

\* the health check is not one that follows a forced disconnect still in
\* progress
FirstForce ==
    connectionHealth.lastActivity = "stale"
       => /\ connectionHealth.consecutiveFailures < MaxFailures
          /\ TooManyFailures(connectionHealth.consecutiveFailures + 1) => Quiet

\* ------------------------------------------------------------- specification
Next ==
    \/ ConnectTikTok
    \/ \E c \in Connectors : ConnectResolve(c)
    \/ \E c \in Connectors : ConnectReject(c)
    \/ FetchReturn
    \/ Quiet /\ ManualDisconnect
    \/ DisconnectReturn
    \/ \E c \in Connectors : FeedDisconnected(c)
    \/ \E c \in Connectors : FeedError(c)
    \/ \E c \in Connectors : FeedStreamEnd(c)
    \/ StreamEndReturn
    \/ \E c \in Connectors : FeedLikeChat(c)
    \/ ActivityGoesStale
    \/ FirstForce /\ HealthCheck
    \/ ClearErrors

Spec == Init /\ [][Next]_vars

\* the state once a first connect() has succeeded and fetchAvailableGifts()
\* has returned `catalog`
OnlineState(catalog, log) ==
    /\ liveStatus = "ONLINE"
    /\ isManualDisconnect = FALSE
    /\ tiktok = 1
    /\ conn = [c \in Connectors |-> IF c = 1 THEN "open" ELSE "closed"]
    /\ fetchPending = 0
    /\ discPending = 0
    /\ sePending = 0
    /\ giftComboTracker = EmptyMap
    /\ comboTimers = {}
    /\ totalGifts = 0
    /\ totalDiamonds = 0
    /\ giftCatalog = catalog
    /\ groups = InitGroups
    /\ counters = InitCounters(InitGroups, EmptyMap)
    /\ viewers = 0
    /\ uniques = {}
    /\ errorLog = log
    /\ pendingBroadcast = FALSE
    /\ broadcastTimer = NoTimer
    /\ mutsPending = 0
    /\ dirtyFirst = 0
    /\ dirtyLast = 0
    /\ healthCheckTimer = TRUE
    /\ connectionHealth = [lastActivity |-> "recent", consecutiveFailures |-> 0,
                           isHealthy |-> TRUE, rescued |-> FALSE]
    /\ burst = [k \in Keys |-> "none"]
    /\ applied = [k \in Keys |-> 0]
    /\ lastSeen = [k \in Keys |-> 0]
    /\ unrouted = FALSE
    /\ cause = "connected"
    /\ cfgTarget = 1
    /\ syncQueue = <<>>
    /\ syncTimer = NoTimer
    /\ syncFirst = 0
    /\ syncLast = 0
    /\ flushing = <<>>
    /\ lastWrite = NoWrite
    /\ lastUpdate = [via |-> "immediate", covers |-> 0, payload |-> buildPayload]

OnlineWith(catalog) == OnlineState(catalog, <<>>)

\* the catalogue was fetched
InitOnline == OnlineWith(FullCatalog)

\* fetchAvailableGifts() failed: the catalogue starts empty
InitOnlineBare == OnlineWith(<<>>)

\* the combo tracker and the aggregator over one connection
NextCombo ==
    \/ \E c \in Connectors, d \in FeedGiftEvents : FeedGift(c, d)
    \/ \E t \in comboTimers : ComboTimeout(t)
    \/ \E c \in Connectors : FeedDisconnected(c)
    \/ \E c \in Connectors : FeedError(c)
    \/ \E c \in Connectors : FeedStreamEnd(c)
    \/ StreamEndReturn
    \/ Quiet /\ ManualDisconnect
    \/ DisconnectReturn
    \/ ActivityGoesStale
    \/ FirstForce /\ HealthCheck
    \/ DebounceFire
    \/ ClearErrors

SpecCombo == InitOnline /\ [][NextCombo]_vars

\* the broadcast debouncer against the clock, over one connection
NextDebounce ==
    \/ \E c \in Connectors, d \in {e \in FeedGiftEvents : e.giftType # 1} : FeedGift(c, d)
    \/ \E c \in Connectors, uid \in Users \cup {""} : FeedMember(c, uid)
    \/ \E c \in Connectors, v \in {Absent} \cup 0..MaxViewers : FeedRoomUser(c, v)
    \/ \E g \in {"g1", "g3"}, dm \in {Absent, 1}, n \in {Absent, 1} : PostCounter(g, dm, n)
    \/ PostReset
    \/ Tick
    \/ DebounceDue

SpecDebounce == InitOnline /\ [][NextDebounce]_vars

\* the sync queue: every enqueue changes the value it saves
\* a flush starts only when none is awaiting a write: n is the length of
\* the queue the step would flush at MAX_SYNC_QUEUE_SIZE
Serial(n) == n < MAX_SYNC_QUEUE_SIZE \/ Len(flushing) < MaxInFlight

NextSync ==
    \/ \E t \in Targets \ {cfgTarget} :
          Serial(Len(syncQueue) + 1) /\ PostTarget(t)
    \/ \E table \in {InitGroups, << [id |-> "g1", giftIds |-> {1}] >>} \ {groups} :
          Serial(Len(syncQueue) + 1) /\ PostGroups(table)
    \/ Len(flushing) < MaxInFlight /\ SyncTimerFire
    \/ \E i \in 1..MaxInFlight, ok \in BOOLEAN : ConfigWriteReturn(i, ok)
    \/ \E i \in 1..MaxInFlight, ok \in BOOLEAN : GroupsWriteReturn(i, ok)

SpecSync == Init /\ [][NextSync]_vars

\* the sync queue against the clock
NextSyncTimed ==
    \/ \E t \in Targets \ {cfgTarget} :
          Serial(Len(syncQueue) + 1) /\ PostTarget(t)
    \/ SyncTick
    \/ Len(flushing) < MaxInFlight /\ SyncDue
    \/ \E i \in 1..MaxInFlight, ok \in BOOLEAN : ConfigWriteReturn(i, ok)

SpecSyncTimed == Init /\ [][NextSyncTimed]_vars

\* the health monitor with every kind of feed event
NextHealth ==
    \/ ConnectTikTok
    \/ \E c \in Connectors : ConnectResolve(c)
    \/ FetchReturn
    \/ \E c \in Connectors, d \in {e \in FeedGiftEvents : e.userId = "u1"} :
          FeedGift(c, d)
    \/ \E t \in comboTimers : ComboTimeout(t)
    \/ \E c \in Connectors, uid \in {"u1", ""} : FeedMember(c, uid)
    \/ \E c \in Connectors, v \in {Absent, MaxViewers} : FeedRoomUser(c, v)
    \/ \E c \in Connectors : FeedLikeChat(c)
    \/ ActivityGoesStale
    \/ FirstForce /\ HealthCheck
    \/ DisconnectReturn

SpecHealth == Init /\ [][NextHealth]_vars

\* the group table, the counters and the totals under the operator's routes
NextAdmin ==
    \/ \E c \in Connectors,
          d \in {e \in FeedGiftEvents : e.userId = "u1" /\ e.repeatEnd} :
          FeedGift(c, d)
    \/ Len(syncQueue) < MaxQueued /\ \E table \in GroupTables : PostGroups(table)
    \/ \E g \in {"g1", "g3"} : PostCounter(g, Absent, 1)
    \/ PostReset
    \/ Len(flushing) < MaxInFlight /\ SyncTimerFire
    \/ \E i \in 1..MaxInFlight, ok \in BOOLEAN : GroupsWriteReturn(i, ok)

SpecAdmin == InitOnlineBare /\ [][NextAdmin]_vars

NextReset ==
    \/ \E c \in Connectors,
          d \in {e \in FeedGiftEvents : e.userId = "u1" /\ e.repeatEnd} :
          FeedGift(c, d)
    \/ \E c \in Connectors, uid \in Users : FeedMember(c, uid)
    \/ \E c \in Connectors : FeedRoomUser(c, MaxViewers)
    \/ \E g \in {"g1", "g2"}, dm \in {Absent, 1}, n \in {Absent, 1} :
          PostCounter(g, dm, n)
    \/ PostReset

SpecReset == InitOnlineBare /\ [][NextReset]_vars

\* flushes that overlap: a batch is flushed by the timer while an earlier
\* batch still awaits a write
NextOverlap ==
    \/ \E t \in Targets \ {cfgTarget} :
          Len(syncQueue) < MaxBatch /\ PostTarget(t)
    \/ \E table \in GroupTables \ {groups} :
          Len(syncQueue) < MaxBatch /\ PostGroups(table)
    \/ SyncTimerFire
    \/ \E i \in 1..MaxFlushes, ok \in BOOLEAN : ConfigWriteReturn(i, ok)
    \/ \E i \in 1..MaxFlushes, ok \in BOOLEAN : GroupsWriteReturn(i, ok)

SpecOverlap == Init /\ [][NextOverlap]_vars

\* logs left by earlier stream ends or failed disconnects, one entry short
\* of full or full
FullLogs ==
    { [i \in 1..n |-> category] :
         n \in (MAX_ERROR_LOG_SIZE - MaxErrors)..MAX_ERROR_LOG_SIZE,
         category \in {"STREAM", "DISCONNECT"} }

InitErrorLog == \E log \in FullLogs : OnlineState(FullCatalog, log)

NextErrorLog ==
    \/ \E c \in Connectors : FeedError(c)
    \/ \E c \in Connectors : FeedLikeChat(c)
    \/ ActivityGoesStale
    \/ ClearErrors

SpecErrorLog == InitErrorLog /\ [][NextErrorLog]_vars

\* health checks that go on while a forced disconnect awaits the connector
NextForced ==
    \/ ActivityGoesStale
    \/ HealthCheck
    \/ DisconnectReturn
    \/ \E c \in Connectors : FeedLikeChat(c)
    \/ \E c \in Connectors : FeedError(c)
    \/ ClearErrors

SpecForced == InitErrorLog /\ [][NextForced]_vars

\* set-counter calls for ids in and out of the Group table, with the debouncer
NextCounter ==
    \/ \E g \in {"g1", "g3"} \cup ProtoKeys, dm \in {Absent, 1}, n \in {Absent, 1} :
          PostCounter(g, dm, n)
    \/ Tick
    \/ DebounceDue

SpecCounter == InitOnlineBare /\ [][NextCounter]_vars

\* ===================================================================== claims

\* ------------------------------------------------------------------------ C1
\* C1: every burst of one (sender, gift) key that was ended by a terminal
\* event or by the combo timeout has handed its delta to processGiftCount
\* exactly once: never zero times and never twice.
C1_BurstCountedOnce ==
    \A k \in Keys : burst[k] \in {"timedout", "closed"} => applied[k] = 1

\* ------------------------------------------------------------------------ C2
\* C2: when the combo timeout of key K fires after a non-terminal event and
\* no further event for K, a delta equal to the last-seen repeatCount is
\* applied once and the entry of K leaves the tracker, with no timer left
\* armed for K; while an entry exists exactly one timer is armed for it.
C2_TimeoutApplies ==
    [][\A t \in comboTimers :
          ComboTimeout(t) =>
             /\ t.key \in DOMAIN giftComboTracker
             /\ lastSeen[t.key] >= 1
             /\ totalGifts' = totalGifts + lastSeen[t.key]
             /\ applied'[t.key] = applied[t.key] + 1
             /\ applied'[t.key] = 1
             /\ t.key \notin DOMAIN giftComboTracker'
             /\ \A u \in comboTimers' : u.key # t.key]_vars

C2_Witness ==
    \E k \in Keys :
       /\ burst[k] = "timedout"
       /\ applied[k] = 1
       /\ k \notin DOMAIN giftComboTracker
       /\ totalGifts = MaxRepeat
       /\ liveStatus = "ONLINE"

\* ------------------------------------------------------------------------ C3
\* C3: after a failed connect attempt or a lost connection a reconnect is
\* pending whose delay is min(baseDelay x 2^n, maxDelay) for the number n of
\* consecutive failures so far.
C3_BackoffDelay ==
    cause \in {"connectFailed", "feedDisconnected", "feedError"} =>
       \E n \in 0..MAX_RECONNECT_ATTEMPTS : reconnectTimer = ReconnectDelay(n)

\* ------------------------------------------------------------------------ C4
\* C4: a feed disconnect or feed error while Online, or a failed connect
\* attempt, not preceded by a manual disconnect, puts the state in
\* Reconnecting.
C4_BecomesReconnecting ==
    [][(/\ ~isManualDisconnect
        /\ \/ /\ liveStatus = "ONLINE"
              /\ \E c \in Connectors : FeedDisconnected(c) \/ FeedError(c)
           \/ \E c \in Connectors : ConnectReject(c))
       => liveStatus' = "RECONNECTING"]_vars

\* ------------------------------------------------------------------------ C6
\* C6: once a manual disconnect() has completed the state is Disconnected
\* and only the next connect() call changes it.
C6_StaysDisconnected ==
    [][(liveStatus = "DISCONNECTED" /\ isManualDisconnect /\ discPending = 0)
       => (liveStatus' = "DISCONNECTED" \/ ConnectTikTok)]_vars

\* ------------------------------------------------------------------------ C7
\* C7 as stated: once the streamEnd handler has set Offline the state stays
\* Offline until a manual connect().
C7_OfflineUntilConnect ==
    [][(cause = "streamEnd" /\ liveStatus = "OFFLINE")
       => (liveStatus' = "OFFLINE" \/ ConnectTikTok)]_vars

\* C7 amended: the streamEnd handler ends with the state Offline; no step
\* other than a connect() call starts a connect attempt; and after a stream
\* end the state changes only by a connect() call, by a disconnect() call or
\* its completion, or by the completion of a connect() already in flight.
C7_StreamEndNoReconnect ==
    [][/\ (StreamEndReturn \/ (tiktok = 0 /\ \E c \in Connectors : FeedStreamEnd(c)))
          => liveStatus' = "OFFLINE"
       /\ (\E c \in Connectors : conn[c] # "connecting" /\ conn'[c] = "connecting")
          => ConnectTikTok
       /\ (cause = "streamEnd" /\ liveStatus' # liveStatus)
          => \/ ConnectTikTok
             \/ ManualDisconnect
             \/ DisconnectReturn
             \/ \E c \in Connectors : ConnectResolve(c)]_vars

C7_Witness ==
    /\ cause = "streamEnd"
    /\ liveStatus = "OFFLINE"
    /\ sePending = 0
    /\ tiktok = 0
    /\ \A c \in Connectors : conn[c] = "closed"

\* ------------------------------------------------------------------------ C8
\* C8: while the state is not Online the combo tracker is empty and no combo
\* timer is armed.
C8_NoCombosUnlessOnline ==
    liveStatus # "ONLINE" => (comboTimers = {} /\ DOMAIN giftComboTracker = {})

\* ------------------------------------------------------------------------ C9
\* C9: the debounced mutations made within one debounce window of the first
\* produce exactly one debounced snapshot: unsent mutations always have the
\* dirty flag set and the timer armed, no debounced snapshot is emitted
\* before a full window has passed since the first of them, and the one that
\* is emitted covers every one of them with the state of that moment and
\* leaves nothing pending.
C9_OneSnapshotPerWindow ==
    [][/\ (mutsPending > 0) = pendingBroadcast
       /\ pendingBroadcast = (broadcastTimer # NoTimer)
       /\ (pendingBroadcast /\ ~pendingBroadcast')
          => /\ dirtyFirst >= BROADCAST_DEBOUNCE_MS
             /\ lastUpdate' = [via |-> "debounced", covers |-> mutsPending,
                               payload |-> buildPayload]
             /\ mutsPending' = 0
             /\ broadcastTimer' = NoTimer
       /\ (lastUpdate' # lastUpdate /\ lastUpdate'.via = "debounced")
          => (pendingBroadcast /\ ~pendingBroadcast')]_vars

C9_Witness ==
    /\ lastUpdate.via = "debounced"
    /\ lastUpdate.covers >= 2
    /\ ~pendingBroadcast
    /\ lastUpdate.payload = buildPayload

\* ----------------------------------------------------------------------- C10
\* C10 as stated: a snapshot is emitted no later than one debounce window
\* after the first mutation that marked the state dirty.
C10_BoundedFromFirst ==
    pendingBroadcast => dirtyFirst <= BROADCAST_DEBOUNCE_MS

\* C10 amended: every debounced mutation re-arms the timer, so the snapshot
\* is emitted exactly one debounce window after the last unsent mutation.
C10_WindowFromLast ==
    [][/\ pendingBroadcast
          => (broadcastTimer # NoTimer
              /\ broadcastTimer + dirtyLast = BROADCAST_DEBOUNCE_MS)
       /\ (pendingBroadcast /\ ~pendingBroadcast')
          => dirtyLast = BROADCAST_DEBOUNCE_MS]_vars

C10_Witness ==
    /\ pendingBroadcast
    /\ mutsPending >= 2
    /\ dirtyFirst > BROADCAST_DEBOUNCE_MS
    /\ dirtyLast < dirtyFirst

\* ----------------------------------------------------------------------- C11
\* the most recently enqueued item of one type among the items flushed
HasType(items, type) == \E i \in 1..Len(items) : items[i].type = type
LastOfType(items, type) ==
    items[CHOOSE i \in 1..Len(items) :
             /\ items[i].type = type
             /\ \A j \in 1..Len(items) : items[j].type = type => j <= i]

\* this step flushes `items`: the queue is empty afterwards and the flush
\* holds one write per type present, with the payload of the latest item
FlushedLatest(items) ==
    /\ syncQueue' = <<>>
    /\ Len(flushing') = Len(flushing) + 1
    /\ LET r == flushing'[Len(flushing')]
       IN /\ r.count = Len(items)
          /\ r.config = HasType(items, "config")
          /\ r.config => r.target = LastOfType(items, "config").target
          /\ r.hasGroups = HasType(items, "groups")
          /\ r.hasGroups => r.groups = LastOfType(items, "groups").groups
          /\ r.awaiting = IF r.config THEN "config" ELSE "groups"

\* C11: a flush of the sync queue, by the timer or by a full queue, issues
\* at most one remote write per type, each with the payload of the most
\* recently enqueued item of that type among the items flushed, and leaves
\* the queue empty; each write that returns carried the payload the flush
\* chose, and the flush never issues a second write of that type.
C11_FlushLatestPerType ==
    [][/\ (syncQueue # <<>> /\ SyncTimerFire) => FlushedLatest(syncQueue)
       /\ \A t \in Targets :
             (PostTarget(t) /\ Len(syncQueue) + 1 >= MAX_SYNC_QUEUE_SIZE)
                => FlushedLatest(Append(syncQueue, ConfigItem(t)))
       /\ \A table \in GroupTables :
             (PostGroups(table) /\ Len(syncQueue) + 1 >= MAX_SYNC_QUEUE_SIZE)
                => FlushedLatest(Append(syncQueue, GroupsItem(table)))
       /\ \A i \in 1..Len(flushing), ok \in BOOLEAN :
             ConfigWriteReturn(i, ok)
                => /\ lastWrite'.type = "config"
                   /\ lastWrite'.target = flushing[i].target
                   /\ \A j \in 1..Len(flushing') :
                         flushing'[j].awaiting = "config" => flushing'[j] \in
                            {flushing[k] : k \in (1..Len(flushing)) \ {i}}
       /\ \A i \in 1..Len(flushing), ok \in BOOLEAN :
             GroupsWriteReturn(i, ok)
                => /\ lastWrite'.type = "groups"
                   /\ lastWrite'.groups = flushing[i].groups
                   /\ Len(flushing') = Len(flushing) - 1]_vars

C11_Witness ==
    /\ syncQueue = <<>>
    /\ Len(flushing) = 1
    /\ flushing[1].count >= 3
    /\ flushing[1].hasGroups
    /\ flushing[1].awaiting = "groups"
    /\ flushing[1].groups = groups
    /\ flushing[1].target = cfgTarget
    /\ lastWrite.type = "config"
    /\ lastWrite.target = flushing[1].target

\* ----------------------------------------------------------------------- C12
\* C12: the queue never holds MAX_SYNC_QUEUE_SIZE items or more once an
\* enqueue has completed: the enqueue that would bring it to the maximum
\* flushes in the same step, which empties the queue, disarms the timer and
\* starts the flush of all the items.
C12_FullQueueFlushesAtOnce ==
    [][/\ Len(syncQueue) < MAX_SYNC_QUEUE_SIZE
       /\ Len(syncQueue') < MAX_SYNC_QUEUE_SIZE
       /\ (Len(syncQueue) = MAX_SYNC_QUEUE_SIZE - 1
           /\ \E t \in Targets, table \in GroupTables :
                 PostTarget(t) \/ PostGroups(table))
          => /\ syncQueue' = <<>>
             /\ syncTimer' = NoTimer
             /\ Len(flushing') = Len(flushing) + 1
             /\ flushing'[Len(flushing')].count = MAX_SYNC_QUEUE_SIZE]_vars

C12_Witness ==
    /\ syncQueue = <<>>
    /\ syncTimer = NoTimer
    /\ Len(flushing) = 1
    /\ flushing[1].count = MAX_SYNC_QUEUE_SIZE

\* ----------------------------------------------------------------------- C13
\* C13 as stated: a flush occurs no later than one batch window after the
\* first un-flushed enqueue.
C13_BoundedFromFirst ==
    syncQueue # <<>> => syncFirst <= SYNC_BATCH_DELAY

\* C13 amended: every enqueue re-arms the flush timer, so the timer flushes
\* exactly one batch window after the last enqueue, and a flush happens
\* earlier only when an enqueue fills the queue.
C13_WindowFromLast ==
    [][/\ syncQueue # <<>>
          => (syncTimer # NoTimer /\ syncTimer + syncLast = SYNC_BATCH_DELAY)
       /\ (syncQueue # <<>> /\ syncQueue' = <<>>)
          => \/ syncLast = SYNC_BATCH_DELAY
             \/ Len(syncQueue) = MAX_SYNC_QUEUE_SIZE - 1]_vars

C13_Witness ==
    /\ Len(syncQueue) >= 2
    /\ syncFirst > SYNC_BATCH_DELAY
    /\ syncLast < syncFirst
    /\ syncTimer > 0

\* ----------------------------------------------------------------------- C14
\* C14: a remote write of a flush that fails appends a SYNC entry to the
\* error log.
C14_FailureLogged ==
    [][(lastWrite' # lastWrite /\ ~lastWrite'.ok)
       => (Len(errorLog') = Len(errorLog) + 1 /\ errorLog'[1] = "SYNC")]_vars

\* ----------------------------------------------------------------------- C15
\* C15: while Online a health check counts a stale check and otherwise
\* clears the count; the check on which the count reaches the threshold of
\* 3 appends one HEALTH entry to the error log and starts the forced
\* disconnect, and a check that leaves the count below 3 appends nothing and
\* disconnects nothing; no HEALTH entry is appended in any other way.
C15_ForcedAtThreshold ==
    [][/\ HealthCheck =>
            LET stale == connectionHealth.lastActivity = "stale"
                n == connectionHealth'.consecutiveFailures
            IN /\ liveStatus = "ONLINE"
               /\ n = IF stale THEN connectionHealth.consecutiveFailures + 1 ELSE 0
               /\ n >= HEALTH_FAILURE_THRESHOLD
                     => /\ errorLog' = <<"HEALTH">> \o errorLog
                        /\ isManualDisconnect'
                        /\ \/ discPending' = discPending + 1
                           \/ liveStatus' = "DISCONNECTED"
               /\ n < HEALTH_FAILURE_THRESHOLD
                     => UNCHANGED <<errorLog, connVars, comboVars>>
       /\ (Len(errorLog') > Len(errorLog) /\ errorLog'[1] = "HEALTH")
             => /\ HealthCheck
                /\ connectionHealth'.consecutiveFailures >= HEALTH_FAILURE_THRESHOLD]_vars

C15_Witness ==
    /\ liveStatus = "ONLINE"
    /\ connectionHealth.consecutiveFailures = HEALTH_FAILURE_THRESHOLD
    /\ errorLog = <<"HEALTH">>
    /\ isManualDisconnect
    /\ discPending = 1

\* ----------------------------------------------------------------------- C16
\* C16: every inbound feed event (gift, member, roomUser, like, chat,
\* connected) sets lastActivity to now and consecutiveFailures to 0, so the
\* count is above 0 only while the last activity is stale.
C16_AnyEventIsActivity ==
    [][/\ (\/ \E c \in Connectors, d \in FeedGiftEvents : FeedGift(c, d)
           \/ \E c \in Connectors, uid \in Users \cup {""} : FeedMember(c, uid)
           \/ \E c \in Connectors, v \in {Absent} \cup 0..MaxViewers : FeedRoomUser(c, v)
           \/ \E c \in Connectors : FeedLikeChat(c)
           \/ \E c \in Connectors : ConnectResolve(c))
          => /\ connectionHealth'.lastActivity = "recent"
             /\ connectionHealth'.consecutiveFailures = 0
       /\ connectionHealth.consecutiveFailures > 0
             => connectionHealth.lastActivity = "stale"]_vars

C16_Witness ==
    /\ liveStatus = "ONLINE"
    /\ connectionHealth.rescued
    /\ connectionHealth.lastActivity = "recent"
    /\ connectionHealth.consecutiveFailures = 0
    /\ errorLog = <<>>

\* ----------------------------------------------------------------------- C17
GroupIds(gs) == {gs[i].id : i \in 1..Len(gs)}
Holders(gs, giftId) == {i \in 1..Len(gs) : giftId \in gs[i].giftIds}
\* the delta the gift handler hands to processGiftCount for an event that
\* ends a streak or cannot streak
GiftDelta(d) ==
    IF d.giftType = 1 THEN d.repeatCount
    ELSE IF d.repeatCount = 0 THEN 1 ELSE d.repeatCount
Zero == [count |-> 0, diamonds |-> 0]
TableOne == << [id |-> "g1", giftIds |-> {1}] >>
TableThree == << [id |-> "g3", giftIds |-> {1, 2}], [id |-> "g1", giftIds |-> {1}] >>

\* C17: once a replace-groups call has left a group id out of the table,
\* there is no Counter for that id, in the state and in every snapshot
\* (the one emitted last and the one that would be emitted now), for as long
\* as the id stays out; and a gift whose id is in no group of the table adds
\* to totalGifts and totalDiamonds and changes no Counter.
C17_OmittedGroupGone ==
    /\ [](/\ DOMAIN counters = GroupIds(groups)
          /\ DOMAIN buildPayload.counters = GroupIds(buildPayload.groups)
          /\ DOMAIN lastUpdate.payload.counters = GroupIds(lastUpdate.payload.groups))
    /\ [][/\ \A table \in GroupTables :
                PostGroups(table) => DOMAIN counters' = GroupIds(table)
          /\ \A c \in Connectors, d \in FeedGiftEvents :
                (d.repeatEnd /\ Holders(groups, d.giftId) = {} /\ FeedGift(c, d))
                   => /\ counters' = counters
                      /\ totalGifts' = totalGifts + GiftDelta(d)
                      /\ totalDiamonds' = totalDiamonds + GiftDelta(d) * d.diamondCount]_vars

\* g2, the only group holding gift 2, was left out; a snapshot was emitted
\* after that; then gift 2 arrived and was routed to no group
C17_Witness ==
    /\ groups = TableOne
    /\ unrouted
    /\ totalGifts > 0
    /\ "g2" \notin DOMAIN counters
    /\ lastUpdate.payload.groups = TableOne
    /\ "g2" \notin DOMAIN lastUpdate.payload.counters

C19_FirstMatchingGroup ==
    [][\A c \in Connectors, d \in FeedGiftEvents :
          (d.repeatEnd /\ giftComboTracker = EmptyMap /\ FeedGift(c, d))
             => LET n == GiftDelta(d)
                    H == Holders(groups, d.giftId)
                IN /\ totalGifts' = totalGifts + n
                   /\ totalDiamonds' = totalDiamonds + n * d.diamondCount
                   /\ DOMAIN counters' = DOMAIN counters
                   /\ \A i \in 1..Len(groups) :
                         counters'[groups[i].id] =
                            IF i \in H /\ \A j \in H : i <= j
                            THEN [count |-> counters[groups[i].id].count + n,
                                  diamonds |-> counters[groups[i].id].diamonds
                                                  + n * d.diamondCount]
                            ELSE counters[groups[i].id]]_vars

\* under the table <<g3, g1>>, both holding gift 1, only gift 1 ever arrived:
\* g3, the first, has all of it and g1 nothing
C19_Witness ==
    /\ groups = TableThree
    /\ giftCatalog = <<1>>
    /\ totalGifts = 2
    /\ totalDiamonds = 2
    /\ counters["g3"] = [count |-> 2, diamonds |-> 2]
    /\ counters["g1"] = Zero

TimersOf(k) == {t \in comboTimers : t.key = k}

\* C21: a terminal (repeatEnd) event of a streak-capable gift for key K
\* applies a delta equal to its own repeatCount, with or without a tracker
\* entry for K, and leaves no entry and no armed timer for K.
C21_TerminalAppliesOwnCount ==
    [][\A c \in Connectors, d \in FeedGiftEvents :
          (d.giftType = 1 /\ d.repeatEnd /\ FeedGift(c, d))
             => /\ totalGifts' = totalGifts + d.repeatCount
                /\ totalDiamonds' = totalDiamonds + d.repeatCount * d.diamondCount
                /\ KeyOf(d) \notin DOMAIN giftComboTracker'
                /\ \A t \in comboTimers' : t.key # KeyOf(d)]_vars

\* a burst was ended by its terminal event, which carried MaxRepeat
C21_Witness ==
    \E k \in Keys :
       /\ burst[k] = "closed"
       /\ applied[k] = 1
       /\ totalGifts = MaxRepeat
       /\ totalDiamonds = MaxRepeat
       /\ k \notin DOMAIN giftComboTracker
       /\ TimersOf(k) = {}

\* ----------------------------------------------------------------------- C22
\* C22: once a terminal event has ended the burst of key K, no timer armed
\* for K is left and no entry for K is left that a timer could act on: a
\* combo timeout applies a delta only for a burst that is still open.
C22_NoTimerAfterTerminal ==
    /\ [](\A k \in Keys :
             burst[k] = "closed"
                => k \notin DOMAIN giftComboTracker /\ TimersOf(k) = {})
    /\ [][\A t \in comboTimers :
             (ComboTimeout(t) /\ totalGifts' # totalGifts)
                => burst[t.key] = "open"]_vars

\* one burst was ended by a terminal event of one gift while another key
\* still has its timer armed
C22_Witness ==
    \E k \in Keys, j \in Keys :
       /\ burst[k] = "closed"
       /\ applied[k] = 1
       /\ TimersOf(k) = {}
       /\ burst[j] = "open"
       /\ TimersOf(j) # {}
       /\ totalGifts = 1

\* ----------------------------------------------------------------------- C23
\* C23: per key there is at most one tracker entry and at most one armed
\* combo timer, the one the entry holds; a non-terminal event for a key
\* replaces the armed timer of that key by a single new one and stores the
\* event, applying no delta.
C23_OneTimerPerKey ==
    /\ [](/\ \A k \in Keys : Cardinality(TimersOf(k)) <= 1
          /\ \A t \in comboTimers :
                /\ t.key \in DOMAIN giftComboTracker
                /\ giftComboTracker[t.key].timeout = t)
    /\ [][\A c \in Connectors, d \in FeedGiftEvents :
             (d.giftType = 1 /\ ~d.repeatEnd /\ FeedGift(c, d))
                => /\ KeyOf(d) \in DOMAIN giftComboTracker'
                   /\ giftComboTracker'[KeyOf(d)].data = d
                   /\ comboTimers' = (comboTimers \ TimersOf(KeyOf(d)))
                                        \cup {giftComboTracker'[KeyOf(d)].timeout}
                   /\ totalGifts' = totalGifts]_vars

\* a burst is open whose last event carried MaxRepeat: its single timer is
\* the one armed by that event
C23_Witness ==
    \E k \in Keys :
       /\ burst[k] = "open"
       /\ lastSeen[k] = MaxRepeat
       /\ k \in DOMAIN giftComboTracker
       /\ giftComboTracker[k].data.repeatCount = MaxRepeat
       /\ TimersOf(k) = {giftComboTracker[k].timeout}

\* ----------------------------------------------------------------------- C24
\* C24: a gift event of a gift that cannot streak applies its delta in the
\* handler itself, repeatCount or 1 when it has none, and leaves the combo
\* tracker and the combo timers as they were.
C24_NonStreakImmediate ==
    [][\A c \in Connectors, d \in FeedGiftEvents :
          (d.giftType # 1 /\ FeedGift(c, d))
             => /\ totalGifts' = totalGifts + GiftDelta(d)
                /\ totalDiamonds' = totalDiamonds + GiftDelta(d) * d.diamondCount
                /\ UNCHANGED <<giftComboTracker, comboTimers>>]_vars

\* one gift 2 was counted and no streak event was ever seen
C24_Witness ==
    /\ totalGifts = 1
    /\ totalDiamonds = DiamondCount(2)
    /\ giftComboTracker = EmptyMap
    /\ comboTimers = {}
    /\ \A k \in Keys : burst[k] = "none"

\* ----------------------------------------------------------------------- C25
\* C25: a step that changes liveStatus emits a snapshot in that same step,
\* directly and not through the debouncer, and the snapshot is the payload
\* of the state the step leaves, new liveStatus included.
C25_StateChangeEmitsNow ==
    [][liveStatus' # liveStatus
          => /\ lastUpdate'.via = "immediate"
             /\ lastUpdate'.payload.stats.liveStatus = liveStatus'
             /\ lastUpdate'.payload = buildPayload']_vars

\* the disconnect that followed a feed error has completed: each of the two
\* changes was emitted at once
C25_Witness ==
    /\ cause = "disconnect"
    /\ liveStatus = "DISCONNECTED"
    /\ errorLog = <<"CONNECTION">>
    /\ lastUpdate.via = "immediate"
    /\ lastUpdate.payload.stats.liveStatus = "DISCONNECTED"
    /\ lastUpdate.payload.stats.lastError = "CONNECTION"

\* ----------------------------------------------------------------------- C26
\* C26: the feed's 'disconnected' event received while liveStatus is ONLINE
\* leaves liveStatus DISCONNECTED.
C26_FeedDisconnectedDisconnects ==
    [][\A c \in Connectors :
          (liveStatus = "ONLINE" /\ FeedDisconnected(c))
             => liveStatus' = "DISCONNECTED"]_vars

\* ----------------------------------------------------------------------- C27
\* C27: the health interval is armed exactly while liveStatus is ONLINE.
C27_ArmedIffOnline == healthCheckTimer <=> liveStatus = "ONLINE"

\* ----------------------------------------------------------------------- C28
\* C28: the error log never holds more than MAX_ERROR_LOG_SIZE entries; an
\* append puts the new entry first, keeps the others in their order and, on
\* a full log, drops the last (oldest) one; the payload's lastError is the
\* first entry of the log, the one appended last, and the snapshot of an
\* appending handler carries it.
C28_BoundedNewestFirst ==
    /\ [](/\ Len(errorLog) <= MAX_ERROR_LOG_SIZE
          /\ buildPayload.stats.errorCount = Len(errorLog)
          /\ errorLog # <<>> => buildPayload.stats.lastError = errorLog[1])
    /\ [][\A c \in Connectors :
             FeedError(c)
                => /\ errorLog'[1] = "CONNECTION"
                   /\ Len(errorLog') = Min({Len(errorLog) + 1, MAX_ERROR_LOG_SIZE})
                   /\ \A i \in 2..Len(errorLog') : errorLog'[i] = errorLog[i - 1]
                   /\ lastUpdate'.payload.stats.lastError = "CONNECTION"
                   /\ lastUpdate'.payload.stats.errorCount = Len(errorLog')]_vars

\* two errors were appended to a log that held at least 49 older entries:
\* the log is full, the two are first, and an older entry was dropped
C28_Witness ==
    /\ Len(errorLog) = MAX_ERROR_LOG_SIZE
    /\ errorLog[1] = "CONNECTION"
    /\ errorLog[2] = "CONNECTION"
    /\ \A i \in 3..MAX_ERROR_LOG_SIZE : errorLog[i] = "STREAM"
    /\ lastUpdate.payload.stats.lastError = "CONNECTION"
    /\ lastUpdate.payload.stats.errorCount = MAX_ERROR_LOG_SIZE

\* ----------------------------------------------------------------------- C29
\* C29: the catalogue only grows: every step keeps the entries it held, in
\* their places.
C29_CatalogAppendOnly ==
    [][/\ Len(giftCatalog') >= Len(giftCatalog)
       /\ \A i \in 1..Len(giftCatalog) : giftCatalog'[i] = giftCatalog[i]]_vars

\* ----------------------------------------------------------------------- C30
\* C30: every snapshot carries, beside liveStatus, the reconnect counters
\* reconnectAttempts, maxReconnectAttempts and isReconnecting.
C30_SnapshotHasReconnectCounters ==
    /\ "liveStatus" \in DOMAIN lastUpdate.payload.stats
    /\ {"reconnectAttempts", "maxReconnectAttempts", "isReconnecting"}
          \subseteq DOMAIN lastUpdate.payload.stats

\* ----------------------------------------------------------------------- C31
\* C31: when tiktok.connect() throws, liveStatus becomes OFFLINE and one
\* CONNECTION entry is put first in the error log, the older entries kept
\* behind it.
C31_ConnectFailureOffline ==
    [][\A c \in Connectors :
          ConnectReject(c)
             => /\ liveStatus' = "OFFLINE"
                /\ Len(errorLog') = Min({Len(errorLog) + 1, MAX_ERROR_LOG_SIZE})
                /\ errorLog'[1] = "CONNECTION"
                /\ \A i \in 2..Len(errorLog') : errorLog'[i] = errorLog[i - 1]]_vars

\* the connect() of the current connector was rejected: nothing is pending
\* and no connector is open
C31_Witness ==
    /\ cause = "connectFailed"
    /\ liveStatus = "OFFLINE"
    /\ errorLog = <<"CONNECTION">>
    /\ tiktok # 0
    /\ \A c \in Connectors : conn[c] = "closed"
    /\ fetchPending = 0

\* ----------------------------------------------------------------------- C32
\* C32: a terminal event for a key whose burst the combo timeout has already
\* counted, with no non-terminal event since, changes neither the totals nor
\* the counters.
C32_NoRecountAfterTimeout ==
    [][\A c \in Connectors, d \in FeedGiftEvents :
          (/\ d.giftType = 1
           /\ d.repeatEnd
           /\ burst[KeyOf(d)] = "timedout"
           /\ FeedGift(c, d))
             => UNCHANGED <<totalGifts, totalDiamonds, counters>>]_vars

\* ----------------------------------------------------------------------- C33
\* C33: the groups write of a flush is never issued after the groups write
\* of a flush that started later and carries another payload.
C33_GroupsWritesInOrder ==
    [][\A i \in 1..Len(flushing), ok \in BOOLEAN :
          (ConfigWriteReturn(i, ok) /\ flushing[i].hasGroups)
             => \A j \in (i + 1)..Len(flushing) :
                   ~(/\ flushing[j].hasGroups
                     /\ flushing[j].awaiting = "groups"
                     /\ flushing[j].groups # flushing[i].groups)]_vars

\* ----------------------------------------------------------------------- C34
\* C34: at most one connector is awaiting the outcome of connect() at any
\* time.
C34_OneAttemptInFlight ==
    Cardinality({c \in Connectors : conn[c] = "connecting"}) <= 1

\* ----------------------------------------------------------------------- C35
\* C35: a health check that runs while a disconnect call is still awaiting
\* the connector starts no further disconnect and appends nothing to the
\* error log.
C35_OneForcedDisconnect ==
    [][(HealthCheck /\ liveStatus = "ONLINE" /\ discPending > 0)
          => /\ discPending' = discPending
             /\ errorLog' = errorLog]_vars

\* ----------------------------------------------------------------------- C36
\* C36: connect() called while the state is Connecting or Online changes
\* neither the state, the connector, the manual-disconnect flag nor any
\* timer, and emits no snapshot.
C36_ConnectIgnoredWhileBusy ==
    [][(liveStatus \in {"CONNECTING", "ONLINE"} /\ ConnectTikTok)
          => UNCHANGED <<liveStatus, tiktok, conn, isManualDisconnect,
                         comboVars, debounceVars, healthVars, syncVars,
                         lastUpdate>>]_vars

C36_Witness ==
    /\ liveStatus = "CONNECTING"
    /\ tiktok # 0
    /\ conn[tiktok] = "connecting"
    /\ ~isManualDisconnect

\* ----------------------------------------------------------------------- C37
\* C37: in every state the group ids that have a Counter are the group ids
\* of the Group table, and the group a gift id routes to has a Counter.
C37_CounterForEveryGroup ==
    /\ DOMAIN counters = GroupIds(groups)
    /\ \A gid \in GiftIds :
          FindGroup(groups, gid) # "" => FindGroup(groups, gid) \in DOMAIN counters

\* the table was replaced, a counter was set and a gift was routed to it
C37_Witness ==
    /\ groups = TableThree
    /\ DOMAIN counters = {"g1", "g3"}
    /\ counters["g3"].count > 1
    /\ totalGifts > 0
    /\ ~unrouted

\* ----------------------------------------------------------------------- C40
\* C40: a set-counter call for a group id that is not in the Group table
\* changes no Counter, no group, no total and nothing of the debouncer, and
\* emits no snapshot.
C40_UnknownGroupRejected ==
    [][\A g \in {"g1", "g3"} \cup ProtoKeys, dm \in {Absent, 1}, n \in {Absent, 1} :
          (g \notin GroupIds(groups) /\ PostCounter(g, dm, n))
             => UNCHANGED <<counters, groups, totalGifts, totalDiamonds,
                            debounceVars, lastUpdate>>]_vars

\* ----------------------------------------------------------------------- C38
\* C38: between handlers the sync queue holds an item exactly when the flush
\* timer is armed.
C38_QueuedIffTimerArmed ==
    (syncQueue # <<>>) <=> (syncTimer # NoTimer)

\* the queue filled up and was flushed at once: nothing queued, no timer
C38_Witness ==
    /\ syncQueue = <<>>
    /\ syncTimer = NoTimer
    /\ flushing # <<>>
    /\ flushing[1].count = MAX_SYNC_QUEUE_SIZE

\* ----------------------------------------------------------------------- C39
\* C39: between handlers pendingBroadcast is set exactly when the debounce
\* timer is armed, also after an immediate broadcast.
C39_DirtyIffTimerArmed ==
    pendingBroadcast <=> (broadcastTimer # NoTimer)

\* mutations are still waiting for the timer although an immediate broadcast
\* has emitted the current payload since the first of them
C39_Witness ==
    /\ pendingBroadcast
    /\ broadcastTimer # NoTimer
    /\ dirtyFirst > 0
    /\ mutsPending > 1
    /\ lastUpdate.via = "immediate"
    /\ lastUpdate.payload = buildPayload

====
